---- MODULE Spec2Model ----
(***************************************************************************)
(* Job portal backend: the User, Job and Application stores and the       *)
(* request handlers of the auth, jobs, applications and admin routers.    *)
(* Every request is a process; each database operation of a handler is    *)
(* one atomic step, together with the local code that follows it up to    *)
(* the next database operation.  Requests interleave arbitrarily.         *)
(***************************************************************************)
EXTENDS Integers, FiniteSets, Sequences, TLC

\* ---------------------------------------------------------------- bounds
MaxUsers == 3
MaxJobs == 2
MaxApps == 2
MaxReqs == 2
MaxNewJobs == 1
MaxNewUsers == 1
MaxPage == 3
MaxLimit == 3

\* The seeded users, and every user _id there can be.
Users == 1..MaxUsers
UserIds == 1..(MaxUsers + MaxNewUsers)
\* The e-mail addresses: user u was registered with address u.
Emails == UserIds
\* The seeded jobs, and every job _id there can be.
Jobs == 1..MaxJobs
JobIds == 1..(MaxJobs + MaxNewJobs)
Reqs == 1..MaxReqs

\* ---------------------------------------------------------------- state
\* users, jobs, applications: the three collections.  A User document has a
\* role, an email, a password, which is "hashed" when the pre-save hook wrote
\* it, "plain" when an update wrote it as given and "none" when the field is
\* absent, and a name, which is "name" or the value another field had.  nextAppId: the next
\* fresh Application _id.  req: the requests in flight, one per connection.
\* resp: the response being sent, with the request it answers (NoResp when
\* none is).
\* nextJobId: the next fresh Job _id.
\* cascaded: the _ids of the Applications that job deletions removed (history,
\* kept by the serial specification only).
VARIABLES users, jobs, applications, nextAppId, nextJobId, req, resp, cascaded

vars == <<users, jobs, applications, nextAppId, nextJobId, req, resp, cascaded>>

\* The Authorization header is absent (or "Bearer " followed by nothing).
NoToken == 0

\* A token whose signature or encoding jwt.verify rejects.
BadToken == -1

Tokens == Users \cup {NoToken, BadToken}

\* An _id no user was registered with yet, and the _id of a deleted user.
FreeUser == [role |-> "free", email |-> 0, password |-> "none", name |-> "none"]
GoneUser == [role |-> "gone", email |-> 0, password |-> "none", name |-> "none"]

NoApp == [id |-> 0, job |-> 0, applicant |-> 0, status |-> "none"]

\* A connection with no request in flight.  In flight: the route, req.user
\* (uid, urole), the :id parameter, the body, and the handler's local document.
\* The stores as the request found them (history, serial specification only):
\* whether every applicationCount was right, and the Application collection.
NoPre == [eq |-> TRUE, apps |-> {}]

Idle ==
  [pc |-> "idle", kind |-> "none", token |-> NoToken, uid |-> 0, urole |-> "none",
   id |-> 0, body |-> "none", loc |-> NoApp, pre |-> NoPre]

\* docs: the User documents, as projected, that the response body holds;
\* list, total, totalPages: the page of a listing (documents by _id, in
\* order), its count and its number of pages.
NoResp ==
  [kind |-> "none", token |-> NoToken, urole |-> "none", id |-> 0, body |-> "none",
   app |-> 0, status |-> 0, err |-> "none", pre |-> NoPre, docs |-> {},
   list |-> <<>>, total |-> 0, totalPages |-> 0]

Response(rec, code, err) ==
  [kind |-> rec.kind, token |-> rec.token, urole |-> rec.urole, id |-> rec.id,
   body |-> rec.body, app |-> rec.loc.id, status |-> code, err |-> err,
   pre |-> rec.pre, docs |-> {}, list |-> <<>>, total |-> 0, totalPages |-> 0]

\* ---------------------------------------------------------------- routes
AuthRegister == "POST /api/auth/register"
AuthLogin == "POST /api/auth/login"
AuthProfileGet == "GET /api/auth/profile"
AuthProfilePut == "PUT /api/auth/profile"
JobsList == "GET /api/jobs"
JobsCreate == "POST /api/jobs"
JobsUpdate == "PUT /api/jobs/:id"
JobsDelete == "DELETE /api/jobs/:id"
JobsApply == "POST /api/jobs/:id/apply"
AppsMine == "GET /api/applications/my-applications"
AppsForJob == "GET /api/applications/job/:jobId"
AppsStatus == "PUT /api/applications/:id/status"
AppsCreate == "POST /api/applications"
AppsDelete == "DELETE /api/applications/:id"
AdminUsers == "GET /api/admin/users"
AdminUserRole == "PUT /api/admin/users/:id/role"
AdminUserDelete == "DELETE /api/admin/users/:id"
AdminJobs == "GET /api/admin/jobs"
AdminStats == "GET /api/admin/stats"
AdminApps == "GET /api/admin/applications"
AdminAppsRecent == "GET /api/admin/applications/recent"
AdminUsersRecent == "GET /api/admin/users/recent"
AdminAppGet == "GET /api/admin/applications/:id"
AdminAppStatus == "PUT /api/admin/applications/:id/status"
AdminAppDelete == "DELETE /api/admin/applications/:id"
AdminJobDelete == "DELETE /api/admin/jobs/:id"

ApplyRoutes == {JobsApply, AppsCreate}
AppDeleteRoutes == {AppsDelete, AdminAppDelete}
JobDeleteRoutes == {JobsDelete, AdminJobDelete}

StatusRoutes == {AppsStatus, AdminAppStatus}

\* applicationSchema.status: enum ["pending", "reviewed", "accepted", "rejected"]
StatusEnum == {"pending", "reviewed", "accepted", "rejected"}

\* Routes whose middleware chain contains authorize("admin").
AdminRoutes ==
  {JobsCreate, JobsUpdate, JobsDelete, AppsForJob, AppsStatus,
   AdminUsers, AdminUserRole, AdminUserDelete, AdminJobs, AdminStats, AdminApps,
   AdminAppsRecent, AdminUsersRecent, AdminAppGet, AdminAppStatus,
   AdminAppDelete, AdminJobDelete}

\* Routes without middleware.
OpenRoutes == {AuthRegister, AuthLogin}

\* Routes whose middleware chain starts with authenticate.
AuthRoutes ==
  AdminRoutes \cup {AuthProfileGet, AuthProfilePut, JobsApply, AppsMine, AppsCreate, AppsDelete}

\* ---------------------------------------------------------------- stores
\* The projections of a User document: .select("-password"), the fields
\* "name email" of a populated reference, and the object register and login
\* build.  A field left out is absent.
UserFields == {"role", "email", "password", "name"}
NotPassword == UserFields \ {"password"}
NameEmail == {"name", "email"}
NameEmailRole == {"name", "email", "role"}

Select(user, fields) ==
  [f \in UserFields |->
     IF f \in fields THEN user[f] ELSE IF f = "email" THEN 0 ELSE "none"]

UserExists(u) == u \in UserIds /\ users[u].role \notin {"gone", "free"}

\* findById that finds a document under every id.
JobExists_anyId(j) == j \in JobIds

JobExists(j) == j \in JobIds /\ jobs[j].exists

\* jobSchema: the strings title, company, description, location and category
\* are sequences of characters; isActive defaults to true, applicationCount
\* to 0, and timestamps sets createdAt.
DefaultText == <<"a">>

NewJob(postedBy, applicationCount, createdAt) ==
  [exists |-> TRUE, applicationCount |-> applicationCount, postedBy |-> postedBy,
   isActive |-> TRUE, title |-> DefaultText, company |-> DefaultText,
   description |-> DefaultText, location |-> DefaultText, type |-> "full-time",
   category |-> DefaultText, createdAt |-> createdAt]

NoJob ==
  [exists |-> FALSE, applicationCount |-> 0, postedBy |-> 0,
   isActive |-> FALSE, title |-> <<>>, company |-> <<>>, description |-> <<>>,
   location |-> <<>>, type |-> "none", category |-> <<>>, createdAt |-> 0]

\* Every stored applicationCount is the number of Applications of its Job.
CountEq == \A j \in JobIds : jobs[j].exists => jobs[j].applicationCount = Cardinality({a \in applications : a.job = j})

AppIds == {a.id : a \in applications}

AppsOfJob(j) == {a \in applications : a.job = j}

AppsOfUser(u) == {a \in applications : a.applicant = u}

\* .sort({createdAt: -1}): Application ids grow with the time of creation.
RECURSIVE SortAppsByCreatedAtDesc(_)
SortAppsByCreatedAtDesc(S) ==
  IF S = {} THEN <<>>
  ELSE LET newest == CHOOSE a \in S : \A b \in S : b.id <= a.id
       IN <<newest.id>> \o SortAppsByCreatedAtDesc(S \ {newest})

\* Application.find({applicant: req.user._id})...sort({createdAt: -1})
MyApplications(uid) == SortAppsByCreatedAtDesc(AppsOfUser(uid))

\* An insert that takes the applicant from the body when it names one.
ApplicantOf_fromBody(body, uid) == IF body = "applicant" THEN 3 ELSE uid

\* Application.create({job, applicant: req.user._id, coverLetter, ...}): the
\* document is built field by field, and applicant is not read from the body.
ApplicantOf(body, uid) == uid

\* The collection as it would be without its unique index: every insert is accepted.
UniqueIndexAllows_noIndex(j, u) == TRUE

\* applicationSchema.index({job: 1, applicant: 1}, {unique: true}): an insert is
\* accepted only when no stored document has the same (job, applicant) key.
UniqueIndexAllows(j, u) == ~\E a \in applications : a.job = j /\ a.applicant = u

\* Application.deleteOne({job: j}) in place of deleteMany: only the oldest
\* Application of the job is removed.
deleteManyByJob_deleteOne(j) ==
  {a \in applications : a.job # j \/ \E b \in applications : b.job = j /\ b.id < a.id}

\* Application.deleteMany({job: j})
deleteManyByJob(j) == {a \in applications : a.job # j}

\* Application.deleteMany({applicant: u})
deleteManyByApplicant(u) == {a \in applications : a.applicant # u}

\* Application.findByIdAndDelete(id)
findByIdAndDelete(id) == {a \in applications : a.id # id}

\* Job.findByIdAndUpdate(j, {$inc: {applicationCount: d}}) on an existing job.
IncApplicationCount(j, d) ==
  [jobs EXCEPT ![j].applicationCount = jobs[j].applicationCount + d]

\* findByIdAndDelete that leaves the Job stored.
RemoveJob_keepsJob(j) == jobs

\* Job.findByIdAndDelete(j)
RemoveJob(j) == [jobs EXCEPT ![j] = NoJob]

\* ---------------------------------------------------------------- requests
\* res.status(code).json(...): the request is answered and its connection is free.
Respond(r, code) ==
  /\ req' = [req EXCEPT ![r] = Idle]
  /\ resp' = Response(req[r], code, "none")

\* res.json(...) of a body that holds User documents.
RespondDocs(r, code, docs) ==
  /\ req' = [req EXCEPT ![r] = Idle]
  /\ resp' = [Response(req[r], code, "none") EXCEPT !.docs = docs]

\* The catch block answers an error thrown by the database.
RespondError(r, code, err) ==
  /\ req' = [req EXCEPT ![r] = Idle]
  /\ resp' = Response(req[r], code, err)

\* The handler goes on to its next database operation.
Goto(r, pc) ==
  /\ req' = [req EXCEPT ![r] = [req[r] EXCEPT !.pc = pc]]
  /\ resp' = NoResp

\* Request r is at database operation pc of the handler of route kind.  The
\* server takes its next step once the last response has left.
At(r, kind, pc) == resp = NoResp /\ req[r].kind = kind /\ req[r].pc = pc

InFlight(r) == req[r].pc # "idle"

Init ==
  /\ users = [u \in UserIds |->
                IF u \in Users
                  THEN [role |-> IF u = 1 THEN "admin" ELSE "user",
                        email |-> u, password |-> "hashed", name |-> "name"]
                  ELSE FreeUser]
  /\ jobs = [j \in JobIds |->
               IF j \in Jobs THEN NewJob(1, 0, j)
               ELSE NoJob]
  /\ applications = {}
  /\ nextAppId = 1
  /\ nextJobId = MaxJobs + 1
  /\ cascaded = {}
  /\ req = [r \in Reqs |-> Idle]
  /\ resp = NoResp

\* ------------------------------------------------------------- middleware
\* authenticate without its missing-token branch: a request without a token
\* goes on as an anonymous one.
authenticate_anonymous(token) ==
  IF token = NoToken THEN 0
  ELSE IF token = BadToken THEN 401
  ELSE IF ~UserExists(token) THEN 401
  ELSE 0

\* authenticate without the test of what User.findById returned: a verified
\* token passes whether or not its user still exists.
authenticate_noLookup(token) ==
  IF token = NoToken THEN 401
  ELSE IF token = BadToken THEN 401
  ELSE 0

\* authenticate: the status it answers with, or 0 when it calls next().
authenticate(token) ==
  IF token = NoToken THEN 401
  ELSE IF token = BadToken THEN 401
  ELSE IF ~UserExists(token) THEN 401
  ELSE 0

\* authorize without its role test: any authenticated user passes.
authorize_anyRole(roles, role) == IF role = "none" THEN 401 ELSE 0

\* authorize as a pass-through: it calls next() for every request.
authorize_open(roles, role) == 0

\* authorize(...roles): the status it answers with, or 0 when it calls next().
\* The role is "none" when no user is attached to the request.
authorize(roles, role) ==
  IF role = "none" THEN 401
  ELSE IF role \notin roles THEN 403
  ELSE 0

\* The handlers without the role test of PUT /api/admin/users/:id/role.
Validate_noRoleCheck(kind, body) ==
  CASE kind = AppsCreate ->
         IF body \in {"noJobId", "noCoverLetter", "badJobId"} THEN 400 ELSE 0
    [] kind = AdminAppStatus ->
         IF body \notin {"pending", "accepted", "rejected"} THEN 400 ELSE 0
    [] OTHER -> 0

\* The handler's code before its first database operation: the status of an
\* early return, or 0 when the handler goes on to the database.
Validate(kind, body) ==
  CASE kind = AppsCreate ->
         IF body \in {"noJobId", "noCoverLetter", "badJobId"} THEN 400 ELSE 0
    [] kind = AdminUserRole -> IF body \notin {"user", "admin"} THEN 400 ELSE 0
    [] kind = AdminAppStatus ->
         IF body \notin {"pending", "accepted", "rejected"} THEN 400 ELSE 0
    [] OTHER -> 0

\* The first database operation of each handler.
FirstOp(kind) ==
  CASE kind \in ApplyRoutes -> "findJob"
    [] kind \in AppDeleteRoutes -> "findApp"
    [] kind = JobsDelete -> "deleteJob"
    [] kind = AdminJobDelete -> "findJob"
    [] kind = AdminUserDelete -> "findUser"
    [] kind = AdminUserRole -> "updateRole"
    [] kind \in {AppsStatus, AdminAppStatus} -> "updateStatus"
    [] kind = JobsCreate -> "create"
    [] kind \in {JobsUpdate, AuthProfilePut} -> "update"
    [] kind \in OpenRoutes -> "findOne"
    [] OTHER -> "read"

\* The request inputs: route, bearer token, the :id parameter and the body.
IdsOf(kind) ==
  CASE kind \in ApplyRoutes \cup JobDeleteRoutes \cup {AppsForJob, JobsUpdate} -> JobIds
    [] kind \in AppDeleteRoutes \cup {AdminAppGet, AppsStatus, AdminAppStatus} -> 1..MaxApps
    [] kind \in {AdminUserRole, AdminUserDelete} -> Users
    [] kind \in OpenRoutes -> Emails
    [] OTHER -> {0}

BodiesOf(kind) ==
  CASE kind = AppsCreate -> {"ok", "noJobId", "noCoverLetter", "badJobId", "applicant"}
    [] kind = JobsApply -> {"ok", "applicant"}
    [] kind = AdminUserRole -> {"user", "admin", "root"}
    [] kind \in {AppsStatus, AdminAppStatus} ->
         {"pending", "reviewed", "accepted", "rejected", "bogus"}
    [] kind \in {JobsCreate, JobsUpdate} ->
         {"ok", "invalid", "applicationCount", "postedBy"}
    [] kind = AuthProfilePut ->
         {"ok", "role", "password", "$set.role", "$set.role=root", "$unset.role",
          "$set.password", "$rename.password", "email=1", "email=new"}
    [] kind = AuthRegister -> {"ok", "admin", "root"}
    [] kind = AuthLogin -> {"right", "wrong"}
    [] OTHER -> {"ok"}

\* Every guarded route with every token, id and body.
AllInputs ==
  UNION {[kind : {k}, token : Tokens, id : IdsOf(k), body : BodiesOf(k)] : k \in AuthRoutes}

\* Serial ledger specification: the routes that write the Application
\* collection and applicationCount, called by every user on every id.
LedgerRoutes ==
  ApplyRoutes \cup AppDeleteRoutes \cup JobDeleteRoutes \cup {AdminUserDelete, AdminAppGet}

LedgerInputs ==
  {i \in AllInputs : i.kind \in LedgerRoutes /\ i.token \in Users /\ i.body = "ok"}

\* Serial access specification: every guarded route and body, without a token,
\* with a rejected token, as the seeded admin and as the first user, on the
\* first job, the first application and the first user.
AuthInputs ==
  {i \in AllInputs :
     /\ i.token <= 2
     /\ i.kind = AuthProfilePut => i.body \in {"ok", "role", "$set.role"}
     /\ i.id = IF i.kind \in {AdminUserRole, AdminUserDelete} THEN 2
               ELSE IF 0 \in IdsOf(i.kind) THEN 0
               ELSE 1}

\* Concurrent specification: the routes that create and cascade, called by
\* their intended callers with well-formed bodies.
CoreRoutes ==
  ApplyRoutes \cup JobDeleteRoutes \cup {AdminUserDelete, AdminUserRole}

CoreInputs ==
  {i \in [kind : CoreRoutes, token : {1, 2}, id : Jobs \cup {2}, body : {"ok", "admin"}] :
     /\ i.id \in IdsOf(i.kind)
     /\ i.token = 1 <=> i.kind \in AdminRoutes
     /\ i.body = "admin" <=> i.kind = AdminUserRole
     /\ i.kind \in {AdminUserDelete, AdminUserRole} => i.id = 2}

\* A request arrives at an idle connection and runs through its middleware
\* chain: authenticate (User.findById), authorize, then the handler up to its
\* first database operation.
Request(r, inputs, serial) ==
  /\ resp = NoResp
  /\ ~InFlight(r)
  /\ \E i \in inputs :
       LET a == IF i.kind \in AuthRoutes THEN authenticate(i.token) ELSE 0
           role == IF a = 0 /\ i.token \in UserIds THEN users[i.token].role ELSE "none"
           z == IF a # 0 THEN a
                ELSE IF i.kind \in AdminRoutes THEN authorize({"admin"}, role)
                ELSE 0
           v == IF z # 0 THEN z ELSE Validate(i.kind, i.body)
           rec == [Idle EXCEPT !.kind = i.kind, !.token = i.token, !.id = i.id,
                               !.body = i.body,
                               !.uid = IF a = 0 /\ i.kind \in AuthRoutes THEN i.token ELSE 0,
                               !.urole = role,
                               !.pre = IF serial
                                         THEN [eq |-> CountEq, apps |-> applications]
                                         ELSE NoPre]
       IN IF v # 0
            THEN /\ resp' = Response(rec, v, "none")
                 /\ UNCHANGED req
            ELSE /\ req' = [req EXCEPT ![r] = [rec EXCEPT !.pc = FirstOp(i.kind)]]
                 /\ resp' = NoResp
  /\ UNCHANGED <<users, jobs, applications, nextAppId, nextJobId, cascaded>>

\* --------------------------------------------- POST /api/jobs/:id/apply
JobsApply_findById(r) ==
  /\ At(r, JobsApply, "findJob")
  /\ IF JobExists(req[r].id) THEN Goto(r, "findOne") ELSE Respond(r, 404)
  /\ UNCHANGED <<users, jobs, applications, nextAppId, nextJobId, cascaded>>

JobsApply_findOne(r) ==
  /\ At(r, JobsApply, "findOne")
  /\ IF \E a \in applications : a.job = req[r].id /\ a.applicant = req[r].uid
       THEN Respond(r, 400)
       ELSE Goto(r, "create")
  /\ UNCHANGED <<users, jobs, applications, nextAppId, nextJobId, cascaded>>

\* Application.create; a duplicate key error lands in the catch block, which
\* answers 500 whatever the error.
JobsApply_create(r) ==
  /\ At(r, JobsApply, "create")
  /\ IF UniqueIndexAllows(req[r].id, req[r].uid)
       THEN /\ nextAppId <= MaxApps
            /\ LET doc == [id |-> nextAppId, job |-> req[r].id,
                           applicant |-> ApplicantOf(req[r].body, req[r].uid),
                           status |-> "pending"]
               IN /\ applications' = applications \cup {doc}
                  /\ req' = [req EXCEPT ![r] = [req[r] EXCEPT !.pc = "inc", !.loc = doc]]
                  /\ resp' = NoResp
            /\ nextAppId' = nextAppId + 1
       ELSE /\ RespondError(r, 500, "E11000")
            /\ UNCHANGED <<applications, nextAppId>>
  /\ UNCHANGED <<users, jobs, nextJobId, cascaded>>

\* Job.findByIdAndUpdate($inc); its result is not looked at.
JobsApply_inc(r) ==
  /\ At(r, JobsApply, "inc")
  /\ jobs' = IF JobExists(req[r].id) THEN IncApplicationCount(req[r].id, 1) ELSE jobs
  /\ Respond(r, 201)
  /\ UNCHANGED <<users, applications, nextAppId, nextJobId, cascaded>>

\* ------------------------------------------------ POST /api/applications
AppsCreate_findById(r) ==
  /\ At(r, AppsCreate, "findJob")
  /\ IF JobExists(req[r].id) THEN Goto(r, "findOne") ELSE Respond(r, 404)
  /\ UNCHANGED <<users, jobs, applications, nextAppId, nextJobId, cascaded>>

AppsCreate_findOne(r) ==
  /\ At(r, AppsCreate, "findOne")
  /\ IF \E a \in applications : a.job = req[r].id /\ a.applicant = req[r].uid
       THEN Respond(r, 400)
       ELSE Goto(r, "create")
  /\ UNCHANGED <<users, jobs, applications, nextAppId, nextJobId, cascaded>>

\* Application.create; the catch block answers 400 to error.code === 11000.
AppsCreate_create(r) ==
  /\ At(r, AppsCreate, "create")
  /\ IF UniqueIndexAllows(req[r].id, req[r].uid)
       THEN /\ nextAppId <= MaxApps
            /\ LET doc == [id |-> nextAppId, job |-> req[r].id,
                           applicant |-> ApplicantOf(req[r].body, req[r].uid),
                           status |-> "pending"]
               IN /\ applications' = applications \cup {doc}
                  /\ req' = [req EXCEPT ![r] = [req[r] EXCEPT !.pc = "inc", !.loc = doc]]
                  /\ resp' = NoResp
            /\ nextAppId' = nextAppId + 1
       ELSE /\ RespondError(r, 400, "E11000")
            /\ UNCHANGED <<applications, nextAppId>>
  /\ UNCHANGED <<users, jobs, nextJobId, cascaded>>

\* Job.findByIdAndUpdate($inc, {new: true}); null sends the handler to the
\* rollback.
AppsCreate_inc(r) ==
  /\ At(r, AppsCreate, "inc")
  /\ IF JobExists(req[r].id)
       THEN /\ jobs' = IncApplicationCount(req[r].id, 1)
            /\ Respond(r, 201)
       ELSE /\ Goto(r, "rollback")
            /\ UNCHANGED jobs
  /\ UNCHANGED <<users, applications, nextAppId, nextJobId, cascaded>>

\* Application.findByIdAndDelete(application._id), then 404.
AppsCreate_rollback(r) ==
  /\ At(r, AppsCreate, "rollback")
  /\ applications' = findByIdAndDelete(req[r].loc.id)
  /\ Respond(r, 404)
  /\ UNCHANGED <<users, jobs, nextAppId, nextJobId, cascaded>>

\* ------------------------------------------------- DELETE /api/jobs/:id
JobsDelete_findByIdAndDelete(r) ==
  /\ At(r, JobsDelete, "deleteJob")
  /\ IF JobExists(req[r].id)
       THEN /\ jobs' = RemoveJob(req[r].id)
            /\ Goto(r, "cascade")
       ELSE /\ Respond(r, 404)
            /\ UNCHANGED jobs
  /\ UNCHANGED <<users, applications, nextAppId, nextJobId, cascaded>>

JobsDelete_deleteMany(r) ==
  /\ At(r, JobsDelete, "cascade")
  /\ applications' = deleteManyByJob(req[r].id)
  /\ Respond(r, 200)
  /\ cascaded' = cascaded \cup {a.id : a \in {b \in req[r].pre.apps : b.job = req[r].id}}
  /\ UNCHANGED <<users, jobs, nextAppId, nextJobId>>

\* Application.deleteMany rejects (the database is unreachable) before it
\* removes anything: the catch block answers 500.  Nothing puts back the Job
\* that findByIdAndDelete removed.
JobsDelete_deleteManyFails(r) ==
  /\ At(r, JobsDelete, "cascade")
  /\ RespondError(r, 500, "deleteMany")
  /\ UNCHANGED <<users, jobs, applications, nextAppId, nextJobId, cascaded>>

\* ------------------------------------------- DELETE /api/admin/jobs/:id
AdminJobDelete_findById(r) ==
  /\ At(r, AdminJobDelete, "findJob")
  /\ IF JobExists(req[r].id) THEN Goto(r, "cascade") ELSE Respond(r, 404)
  /\ UNCHANGED <<users, jobs, applications, nextAppId, nextJobId, cascaded>>

AdminJobDelete_deleteMany(r) ==
  /\ At(r, AdminJobDelete, "cascade")
  /\ applications' = deleteManyByJob(req[r].id)
  /\ Goto(r, "deleteJob")
  /\ UNCHANGED <<users, jobs, nextAppId, nextJobId, cascaded>>

AdminJobDelete_findByIdAndDelete(r) ==
  /\ At(r, AdminJobDelete, "deleteJob")
  /\ jobs' = IF JobExists(req[r].id) THEN RemoveJob(req[r].id) ELSE jobs
  /\ Respond(r, 200)
  /\ cascaded' = cascaded \cup {a.id : a \in {b \in req[r].pre.apps : b.job = req[r].id}}
  /\ UNCHANGED <<users, applications, nextAppId, nextJobId>>

\* ------------------------------------------ DELETE /api/admin/users/:id
AdminUserDelete_findById(r) ==
  /\ At(r, AdminUserDelete, "findUser")
  /\ IF ~UserExists(req[r].id) THEN Respond(r, 404)
     ELSE IF users[req[r].id].role = "admin" THEN Respond(r, 400)
     ELSE Goto(r, "deleteUser")
  /\ UNCHANGED <<users, jobs, applications, nextAppId, nextJobId, cascaded>>

AdminUserDelete_findByIdAndDelete(r) ==
  /\ At(r, AdminUserDelete, "deleteUser")
  /\ users' = [users EXCEPT ![req[r].id] = GoneUser]
  /\ Goto(r, "cascade")
  /\ UNCHANGED <<jobs, applications, nextAppId, nextJobId, cascaded>>

AdminUserDelete_deleteMany(r) ==
  /\ At(r, AdminUserDelete, "cascade")
  /\ applications' = deleteManyByApplicant(req[r].id)
  /\ Respond(r, 200)
  /\ UNCHANGED <<users, jobs, nextAppId, nextJobId, cascaded>>

\* --------------------------------------- PUT /api/admin/users/:id/role
AdminUserRole_findByIdAndUpdate(r) ==
  /\ At(r, AdminUserRole, "updateRole")
  /\ IF UserExists(req[r].id)
       THEN /\ users' = [users EXCEPT ![req[r].id].role = req[r].body]
            /\ RespondDocs(r, 200, {Select([users[req[r].id] EXCEPT !.role = req[r].body],
                                            NotPassword)})
       ELSE /\ Respond(r, 404)
            /\ UNCHANGED users
  /\ UNCHANGED <<jobs, applications, nextAppId, nextJobId, cascaded>>

\* ---------------------------------------------- DELETE /api/applications/:id
\* The ownership check left out: every authenticated caller may delete.
MayDelete_anyone(application, uid, urole) == TRUE

\* application.applicant is req.user._id, or req.user.role is "admin".
MayDelete(application, uid, urole) ==
  application.applicant = uid \/ urole = "admin"

AppsDelete_findById(r) ==
  /\ At(r, AppsDelete, "findApp")
  /\ IF req[r].id \notin AppIds THEN Respond(r, 404)
     ELSE LET application == CHOOSE a \in applications : a.id = req[r].id
          IN IF ~MayDelete(application, req[r].uid, req[r].urole)
               THEN Respond(r, 403)
               ELSE /\ req' = [req EXCEPT ![r] =
                                 [req[r] EXCEPT !.pc = "deleteApp", !.loc = application]]
                    /\ resp' = NoResp
  /\ UNCHANGED <<users, jobs, applications, nextAppId, nextJobId, cascaded>>

AppsDelete_findByIdAndDelete(r) ==
  /\ At(r, AppsDelete, "deleteApp")
  /\ applications' = findByIdAndDelete(req[r].id)
  /\ Goto(r, "dec")
  /\ UNCHANGED <<users, jobs, nextAppId, nextJobId, cascaded>>

\* Job.findByIdAndUpdate(application.job, {$inc: {applicationCount: -1}})
AppsDelete_dec(r) ==
  /\ At(r, AppsDelete, "dec")
  /\ jobs' = IF JobExists(req[r].loc.job)
               THEN IncApplicationCount(req[r].loc.job, -1)
               ELSE jobs
  /\ Respond(r, 200)
  /\ UNCHANGED <<users, applications, nextAppId, nextJobId, cascaded>>

\* --------------------------------------- DELETE /api/admin/applications/:id
AdminAppDelete_findById(r) ==
  /\ At(r, AdminAppDelete, "findApp")
  /\ IF req[r].id \notin AppIds THEN Respond(r, 404) ELSE Goto(r, "deleteApp")
  /\ UNCHANGED <<users, jobs, applications, nextAppId, nextJobId, cascaded>>

AdminAppDelete_findByIdAndDelete(r) ==
  /\ At(r, AdminAppDelete, "deleteApp")
  /\ applications' = findByIdAndDelete(req[r].id)
  /\ Respond(r, 200)
  /\ UNCHANGED <<users, jobs, nextAppId, nextJobId, cascaded>>

\* ------------------------------------------ GET /api/admin/applications/:id
AdminAppGet_findById(r) ==
  /\ At(r, AdminAppGet, "read")
  /\ IF req[r].id \in AppIds THEN Respond(r, 200) ELSE Respond(r, 404)
  /\ UNCHANGED <<users, jobs, applications, nextAppId, nextJobId, cascaded>>

\* ---------------------------------------------------- the listing routes
\* GET profile, my-applications, applications of a job, and the admin
\* listings and statistics: queries only, answered 200.
ReadRoutes ==
  {AuthProfileGet, AppsMine, AppsForJob, AdminUsers, AdminJobs, AdminStats,
   AdminApps, AdminAppsRecent, AdminUsersRecent}

\* .populate(path, fields): the referenced users that exist, projected.
Populate(ids, fields) ==
  {Select(users[u], fields) : u \in {v \in ids : UserExists(v)}}

\* The User documents in the body of each listing.
DocsOf(kind, uid) ==
  CASE kind = AuthProfileGet -> Populate({uid}, NotPassword)
    [] kind = AdminUsers -> Populate(UserIds, NotPassword)
    [] kind = AdminUsersRecent ->
         Populate({u \in UserIds : users[u].role = "user"}, NotPassword)
    [] kind = AppsMine ->
         Populate({a.applicant : a \in AppsOfUser(uid)}, NameEmail)
           \cup Populate({jobs[a.job].postedBy : a \in AppsOfUser(uid)}, NameEmail)
    [] kind \in {AppsForJob, AdminApps, AdminAppsRecent} ->
         Populate({a.applicant : a \in applications}, NameEmail)
    [] kind = AdminJobs ->
         Populate({jobs[j].postedBy : j \in {i \in JobIds : jobs[i].exists}}, NameEmail)
    [] OTHER -> {}

Read_find(r) ==
  /\ resp = NoResp
  /\ req[r].kind \in ReadRoutes
  /\ req[r].pc = "read"
  /\ req' = [req EXCEPT ![r] = Idle]
  /\ resp' = [Response(req[r], 200, "none") EXCEPT
                !.docs = DocsOf(req[r].kind, req[r].uid),
                !.list = IF req[r].kind = AppsMine
                           THEN MyApplications(req[r].uid)
                           ELSE <<>>]
  /\ UNCHANGED <<users, jobs, applications, nextAppId, nextJobId, cascaded>>

\* ------------------------------------ PUT /api/applications/:id/status
\* Application.findByIdAndUpdate(id, {status}, {new: true}): no validators run.
SetStatus(id, status) ==
  {IF a.id = id THEN [a EXCEPT !.status = status] ELSE a : a \in applications}

AppsStatus_findByIdAndUpdate(r) ==
  /\ At(r, AppsStatus, "updateStatus")
  /\ IF req[r].id \in AppIds
       THEN /\ applications' = SetStatus(req[r].id, req[r].body)
            /\ Respond(r, 200)
       ELSE /\ Respond(r, 404)
            /\ UNCHANGED applications
  /\ UNCHANGED <<users, jobs, nextAppId, nextJobId, cascaded>>

\* ------------------------------ PUT /api/admin/applications/:id/status
AdminAppStatus_findByIdAndUpdate(r) ==
  /\ At(r, AdminAppStatus, "updateStatus")
  /\ IF req[r].id \in AppIds
       THEN /\ applications' = SetStatus(req[r].id, req[r].body)
            /\ Respond(r, 200)
       ELSE /\ Respond(r, 404)
            /\ UNCHANGED applications
  /\ UNCHANGED <<users, jobs, nextAppId, nextJobId, cascaded>>

\* ------------------------------------------------------------ GET /api/jobs
\* $options "i": letters compare by their lower case.
Lower(c) == IF c = "A" THEN "a" ELSE IF c = "B" THEN "b" ELSE c

\* One character of a $regex pattern against one character of the field: a
\* dot matches any character, a letter matches itself in either case.
RegexCharMatches(p, c) == p = "." \/ Lower(p) = Lower(c)

\* {$regex: pattern, $options: "i"}: the pattern is not anchored, so it
\* matches when it matches at some position of the field.
RegexMatches(pattern, text) ==
  \E i \in 1..(Len(text) - Len(pattern) + 1) :
    \A k \in 1..Len(pattern) : RegexCharMatches(pattern[k], text[i + k - 1])

\* if (search), if (location), if (category): a parameter that is absent or
\* the empty string is falsy.  The type parameter is a whole word: "" is falsy.
Supplied(param) == param # <<>>

\* The filter the handler builds: {isActive: true}, $or of the three text
\* fields for search, $regex for location and category, equality for type.
Matches(job, query) ==
  /\ job.exists
  /\ job.isActive = TRUE
  /\ Supplied(query.search) =>
       \/ RegexMatches(query.search, job.title)
       \/ RegexMatches(query.search, job.company)
       \/ RegexMatches(query.search, job.description)
  /\ Supplied(query.location) => RegexMatches(query.location, job.location)
  /\ query.type # "" => job.type = query.type
  /\ Supplied(query.category) => RegexMatches(query.category, job.category)

\* .sort({createdAt: -1}): the ids of S, newest first.
RECURSIVE SortByCreatedAtDesc(_)
SortByCreatedAtDesc(S) ==
  IF S = {} THEN <<>>
  ELSE LET newest == CHOOSE j \in S : \A k \in S : jobs[k].createdAt <= jobs[j].createdAt
       IN <<newest>> \o SortByCreatedAtDesc(S \ {newest})

\* Math.ceil(total / limit)
Ceil(total, limit) == (total + limit - 1) \div limit

\* A cursor that skips page * limit documents.
Page_skipWholePages(sorted, page, limit) ==
  SubSeq(sorted, page * limit + 1,
         IF (page + 1) * limit < Len(sorted) THEN (page + 1) * limit ELSE Len(sorted))

\* .limit(limit * 1).skip((page - 1) * limit): the cursor skips, then limits.
Page(sorted, page, limit) ==
  SubSeq(sorted, (page - 1) * limit + 1,
         IF page * limit < Len(sorted) THEN page * limit ELSE Len(sorted))

\* Job.find(query).populate(...).sort(...).limit(...).skip(...)
JobsList_find(r) ==
  /\ At(r, JobsList, "find")
  /\ LET found == {j \in JobIds : Matches(jobs[j], req[r].body)}
         page == Page(SortByCreatedAtDesc(found), req[r].body.page, req[r].body.limit)
     IN /\ req' = [req EXCEPT ![r].pc = "count",
                              ![r].loc = [id |-> 0, list |-> page]]
        /\ resp' = NoResp
  /\ UNCHANGED <<users, jobs, applications, nextAppId, nextJobId, cascaded>>

\* Job.countDocuments(query), then res.json({jobs, totalPages, currentPage, total})
JobsList_countDocuments(r) ==
  /\ At(r, JobsList, "count")
  /\ req' = [req EXCEPT ![r] = Idle]
  /\ LET total == Cardinality({j \in JobIds : Matches(jobs[j], req[r].body)})
     IN resp' = [Response(req[r], 200, "none") EXCEPT
                   !.list = req[r].loc.list,
                   !.total = total,
                   !.totalPages = Ceil(total, req[r].body.limit)]
  /\ UNCHANGED <<users, jobs, applications, nextAppId, nextJobId, cascaded>>

\* ------------------------------------------------ GET /api/admin/applications
\* text.toLowerCase().includes(searchLower): the characters of the term, in
\* lower case, at some position of the text in lower case.
Includes(text, term) ==
  \E i \in 1..(Len(text) - Len(term) + 1) :
    \A k \in 1..Len(term) : Lower(term[k]) = Lower(text[i + k - 1])

\* The characters of a stored name.
NameChars(name) == IF name = "name" THEN <<"A", "b">> ELSE <<"b">>

\* query.status is set unless status is absent, empty or "all".
StatusMatches(application, status) ==
  status \in {"", "all"} \/ application.status = status

\* The in-memory filter on the populated applicant and job; a reference
\* that resolves to no document is populated as null.
SearchMatches(application, search) ==
  \/ UserExists(application.applicant)
       /\ Includes(NameChars(users[application.applicant].name), search)
  \/ JobExists(application.job) /\ Includes(jobs[application.job].title, search)
  \/ JobExists(application.job) /\ Includes(jobs[application.job].company, search)

\* applications.slice(start, end): the elements at positions start .. end - 1,
\* counted from 0, that exist.
Slice(list, start, end) ==
  SubSeq(list, start + 1, IF end < Len(list) THEN end ELSE Len(list))

\* Application.find(query).populate(...).sort(...), the search filter, then
\* the slice of the page and res.json({applications, totalPages, currentPage, total}).
AdminApps_find(r) ==
  /\ At(r, AdminApps, "find")
  /\ LET q == req[r].body
         found == {a \in applications : StatusMatches(a, q.status)}
         kept == IF Supplied(q.search)
                   THEN {a \in found : SearchMatches(a, q.search)}
                   ELSE found
         sorted == SortAppsByCreatedAtDesc(kept)
         total == Len(sorted)
         start == (q.page - 1) * q.limit
     IN /\ req' = [req EXCEPT ![r] = Idle]
        /\ resp' = [Response(req[r], 200, "none") EXCEPT
                      !.list = Slice(sorted, start, start + q.limit * 1),
                      !.total = total,
                      !.totalPages = Ceil(total, q.limit),
                      !.docs = Populate({a.applicant : a \in kept}, NameEmail)]
  /\ UNCHANGED <<users, jobs, applications, nextAppId, nextJobId, cascaded>>

\* ----------------------------------------------------------- POST /api/jobs
\* Job.create({...req.body, postedBy: req.user._id, companyLogo}); a body
\* that fails schema validation throws, and the catch block answers 500.
\* The fields a body supplies: "postedBy" names the first user as the
\* poster, "applicationCount" gives a count of 1; 0: the key is absent.
BodyPostedBy(body) == IF body = "postedBy" THEN 2 ELSE 0

BodyApplicationCount(body) == IF body = "applicationCount" THEN 1 ELSE 0

\* Job data in which the keys of the body come last and win.
JobData_bodyLast(body, uid) ==
  [postedBy |-> IF BodyPostedBy(body) # 0 THEN BodyPostedBy(body) ELSE uid,
   applicationCount |-> BodyApplicationCount(body)]

\* {...req.body, postedBy: req.user._id, companyLogo}: the keys of the body,
\* then postedBy, which replaces the body's.
JobData(body, uid) ==
  [postedBy |-> uid, applicationCount |-> BodyApplicationCount(body)]

JobsCreate_create(r) ==
  /\ At(r, JobsCreate, "create")
  /\ IF req[r].body = "invalid"
       THEN /\ RespondError(r, 500, "ValidationError")
            /\ UNCHANGED <<jobs, nextJobId>>
       ELSE /\ nextJobId \in JobIds
            /\ jobs' = [jobs EXCEPT ![nextJobId] =
                          NewJob(JobData(req[r].body, req[r].uid).postedBy,
                                 JobData(req[r].body, req[r].uid).applicationCount,
                                 nextJobId)]
            /\ nextJobId' = nextJobId + 1
            /\ Respond(r, 201)
  /\ UNCHANGED <<users, applications, nextAppId, cascaded>>

\* -------------------------------------------------------- PUT /api/jobs/:id
\* Job.findByIdAndUpdate(id, req.body, {new: true, runValidators: true})
JobsUpdate_findByIdAndUpdate(r) ==
  /\ At(r, JobsUpdate, "update")
  /\ IF req[r].body = "invalid"
       THEN /\ RespondError(r, 500, "ValidationError")
            /\ UNCHANGED jobs
     ELSE IF ~JobExists(req[r].id)
       THEN /\ Respond(r, 404)
            /\ UNCHANGED jobs
     ELSE /\ jobs' = IF BodyApplicationCount(req[r].body) # 0
                        THEN [jobs EXCEPT ![req[r].id].applicationCount =
                                            BodyApplicationCount(req[r].body)]
                      ELSE IF BodyPostedBy(req[r].body) # 0
                        THEN [jobs EXCEPT ![req[r].id].postedBy =
                                            BodyPostedBy(req[r].body)]
                      ELSE jobs
          /\ Respond(r, 200)
  /\ UNCHANGED <<users, applications, nextAppId, nextJobId, cascaded>>

\* ------------------------------------------------- PUT /api/auth/profile
\* userSchema email {unique: true}: the index accepts address e for user u
\* when no other stored user has it.
EmailIndexAllows(u, e) ==
  ~\E v \in UserIds \ {u} : UserExists(v) /\ users[v].email = e

\* The address an update body carries: the seeded admin's, or one no seeded
\* user has.
EmailOfBody(body) == IF body = "email=1" THEN 1 ELSE MaxUsers + MaxNewUsers

\* delete updates.password; delete updates.role: only top-level keys go.
StripPasswordAndRole(body) == IF body \in {"role", "password"} THEN "ok" ELSE body

\* The document after MongoDB applied the update.  An update goes around the
\* pre-save hook, so a password it sets is stored as given; $unset removes
\* the role, which Mongoose then reads as the schema default "user"; $rename
\* moves the password's value into name.
ApplyUpdate(user, updates) ==
  CASE updates = "$set.role" -> [user EXCEPT !.role = "admin"]
    [] updates = "$unset.role" -> [user EXCEPT !.role = "user"]
    [] updates = "$set.password" -> [user EXCEPT !.password = "plain"]
    [] updates = "$rename.password" ->
         [user EXCEPT !.name = user.password, !.password = "none"]
    [] updates \in {"email=1", "email=new"} -> [user EXCEPT !.email = EmailOfBody(updates)]
    [] OTHER -> user

\* User.findByIdAndUpdate(req.user._id, updates, {new: true, runValidators: true})
\* The update validators run before the update is sent: a role outside the
\* enum throws, and the catch block answers 500, as it does for the duplicate
\* key error of the email index.
AuthProfilePut_findByIdAndUpdate(r) ==
  /\ At(r, AuthProfilePut, "update")
  /\ LET updates == StripPasswordAndRole(req[r].body)
         u == req[r].uid
     IN IF updates = "$set.role=root"
          THEN /\ RespondError(r, 500, "ValidationError")
               /\ UNCHANGED users
        ELSE IF ~UserExists(u)
          THEN /\ Respond(r, 200)
               /\ UNCHANGED users
        ELSE IF ~EmailIndexAllows(u, ApplyUpdate(users[u], updates).email)
          THEN /\ RespondError(r, 500, "E11000")
               /\ UNCHANGED users
        ELSE /\ users' = [users EXCEPT ![u] = ApplyUpdate(users[u], updates)]
             /\ RespondDocs(r, 200, {Select(ApplyUpdate(users[u], updates), NotPassword)})
  /\ UNCHANGED <<jobs, applications, nextAppId, nextJobId, cascaded>>

\* ------------------------------------------------ POST /api/auth/register
EmailTaken(e) == \E u \in UserIds : UserExists(u) /\ users[u].email = e

\* The _id of the next created user: _ids are never used twice.
FreshUserId == CHOOSE u \in UserIds : users[u].role = "free" /\ \A v \in 1..(u - 1) : users[v].role # "free"

\* User.findOne({email})
Register_findOne(r) ==
  /\ At(r, AuthRegister, "findOne")
  /\ IF EmailTaken(req[r].id) THEN Respond(r, 400) ELSE Goto(r, "create")
  /\ UNCHANGED <<users, jobs, applications, nextAppId, nextJobId, cascaded>>

\* User.create({name, email, password, role: role || "user"}): validation
\* (the role enum), the pre-save hook that hashes the password, then the
\* insert, which the email index may reject; the catch block answers 500.
Register_create(r) ==
  /\ At(r, AuthRegister, "create")
  /\ IF req[r].body = "root"
       THEN /\ RespondError(r, 500, "ValidationError")
            /\ UNCHANGED users
     ELSE IF EmailTaken(req[r].id)
       THEN /\ RespondError(r, 500, "E11000")
            /\ UNCHANGED users
     ELSE /\ \E u \in UserIds : users[u].role = "free"
          /\ users' = [users EXCEPT ![FreshUserId] =
                         [role |-> IF req[r].body = "admin" THEN "admin" ELSE "user",
                          email |-> req[r].id, password |-> "hashed", name |-> "name"]]
          /\ RespondDocs(r, 201, {Select(users'[FreshUserId], NameEmailRole)})
  /\ UNCHANGED <<jobs, applications, nextAppId, nextJobId, cascaded>>

\* --------------------------------------------------- POST /api/auth/login
\* User.findOne({email}), then user.comparePassword(password): bcrypt.compare
\* against the stored value, which matches only a stored hash and throws when
\* the stored password is absent.
Login_findOne(r) ==
  /\ At(r, AuthLogin, "findOne")
  /\ IF ~EmailTaken(req[r].id) THEN Respond(r, 400)
     ELSE LET user == users[CHOOSE u \in UserIds : UserExists(u) /\ users[u].email = req[r].id]
          IN IF user.password = "none" THEN RespondError(r, 500, "Error")
             ELSE IF req[r].body = "right" /\ user.password = "hashed"
               THEN RespondDocs(r, 200, {Select(user, NameEmailRole)})
             ELSE Respond(r, 400)
  /\ UNCHANGED <<users, jobs, applications, nextAppId, nextJobId, cascaded>>

\* The response is on the wire and leaves the server.
Send ==
  /\ resp # NoResp
  /\ resp' = NoResp
  /\ UNCHANGED <<users, jobs, applications, nextAppId, nextJobId, req, cascaded>>

\* ------------------------------------------------------- specifications
ApplyStep(r) ==
  \/ JobsApply_findById(r)
  \/ JobsApply_findOne(r)
  \/ JobsApply_create(r)
  \/ JobsApply_inc(r)
  \/ AppsCreate_findById(r)
  \/ AppsCreate_findOne(r)
  \/ AppsCreate_create(r)
  \/ AppsCreate_inc(r)

JobDeleteStep(r) ==
  \/ JobsDelete_findByIdAndDelete(r)
  \/ JobsDelete_deleteMany(r)
  \/ AdminJobDelete_findById(r)
  \/ AdminJobDelete_deleteMany(r)
  \/ AdminJobDelete_findByIdAndDelete(r)

UserDeleteStep(r) ==
  \/ AdminUserDelete_findById(r)
  \/ AdminUserDelete_findByIdAndDelete(r)
  \/ AdminUserDelete_deleteMany(r)

AppDeleteStep(r) ==
  \/ AppsDelete_findById(r)
  \/ AppsDelete_findByIdAndDelete(r)
  \/ AppsDelete_dec(r)
  \/ AdminAppDelete_findById(r)
  \/ AdminAppDelete_findByIdAndDelete(r)

OtherStep(r) ==
  \/ Read_find(r)
  \/ AppsStatus_findByIdAndUpdate(r)
  \/ AdminAppStatus_findByIdAndUpdate(r)
  \/ JobsCreate_create(r)
  \/ JobsUpdate_findByIdAndUpdate(r)
  \/ AuthProfilePut_findByIdAndUpdate(r)

\* Requests interleave at every database operation.
Next ==
  \E r \in Reqs :
    \/ Request(r, CoreInputs, FALSE)
    \/ ApplyStep(r)
    \/ AppsCreate_rollback(r)
    \/ JobDeleteStep(r)
    \/ UserDeleteStep(r)
    \/ AdminUserRole_findByIdAndUpdate(r)
    \/ Send

Spec == Init /\ [][Next]_vars

\* The concurrent specification with a database that may fail the cascade
\* of DELETE /api/jobs/:id.
NextFail ==
  \/ Next
  \/ \E r \in Reqs : JobsDelete_deleteManyFails(r)

SpecFail == Init /\ [][NextFail]_vars

\* Concurrent ledger specification: the first user applies to the first Job
\* through either endpoint and deletes the first Application, and the admin
\* deletes it too, with two requests in flight.
RaceInputs ==
  {i \in AllInputs :
     /\ i.kind \in ApplyRoutes \cup AppDeleteRoutes
     /\ i.body = "ok"
     /\ i.id = 1
     /\ i.token = IF i.kind = AdminAppDelete THEN 1 ELSE 2}

NextRace ==
  \E r \in Reqs :
    \/ Request(r, RaceInputs, FALSE)
    \/ ApplyStep(r)
    \/ AppDeleteStep(r)
    \/ Send

SpecRace == Init /\ [][NextRace]_vars

\* Administration specification: role changes and user deletions by the
\* seeded admin and by the first user, on every seeded user, themselves
\* included, with two requests in flight.
AdminInputs ==
  {i \in AllInputs :
     /\ i.kind \in {AdminUserRole, AdminUserDelete}
     /\ i.token \in {1, 2}
     /\ i.body \in {"user", "admin", "ok"}}

NextAdmins ==
  \E r \in Reqs :
    \/ Request(r, AdminInputs, FALSE)
    \/ UserDeleteStep(r)
    \/ AdminUserRole_findByIdAndUpdate(r)
    \/ Send

SpecAdmins == Init /\ [][NextAdmins]_vars

\* One request at a time, each run to its response before the next arrives.
NextSeq ==
  \/ Request(1, LedgerInputs, TRUE)
  \/ ApplyStep(1)
  \/ JobDeleteStep(1)
  \/ UserDeleteStep(1)
  \/ AppDeleteStep(1)
  \/ AdminAppGet_findById(1)
  \/ Send

SpecSeq == Init /\ [][NextSeq]_vars

NextAuth ==
  \/ Request(1, AuthInputs, FALSE)
  \/ ApplyStep(1)
  \/ JobDeleteStep(1)
  \/ UserDeleteStep(1)
  \/ AppDeleteStep(1)
  \/ AdminAppGet_findById(1)
  \/ AdminUserRole_findByIdAndUpdate(1)
  \/ OtherStep(1)
  \/ Send

SpecAuth == Init /\ [][NextAuth]_vars

\* Concurrent account specification: registration and login with the address
\* of the first user and with a new address, profile reads and updates by the
\* first user, and the admin's user listing, role change and deletion of the
\* first user.
UserRoutes ==
  {AuthRegister, AuthLogin, AuthProfileGet, AuthProfilePut,
   AdminUsers, AdminUserRole, AdminUserDelete}

UserInputs ==
  {i \in [kind : UserRoutes, token : UserIds \cup {NoToken},
          id : {0, 2, MaxUsers + MaxNewUsers},
          body : UNION {BodiesOf(k) : k \in UserRoutes}] :
     /\ i.body \in BodiesOf(i.kind)
     /\ i.kind \in OpenRoutes => (i.token = NoToken /\ i.id # 0)
     /\ i.kind \in {AuthProfileGet, AuthProfilePut} => (i.token = 2 /\ i.id = 0)
     /\ i.kind = AdminUsers => (i.token = 1 /\ i.id = 0)
     /\ i.kind \in {AdminUserRole, AdminUserDelete} => (i.token = 1 /\ i.id = 2)}

NextUsers ==
  \E r \in Reqs :
    \/ Request(r, UserInputs, FALSE)
    \/ Register_findOne(r)
    \/ Register_create(r)
    \/ Login_findOne(r)
    \/ AuthProfilePut_findByIdAndUpdate(r)
    \/ Read_find(r)
    \/ AdminUserRole_findByIdAndUpdate(r)
    \/ UserDeleteStep(r)
    \/ Send

SpecUsers == Init /\ [][NextUsers]_vars

\* Listing specification: the handler of GET /api/jobs applied to a request
\* that has arrived, over every Job collection and query string drawn from
\* the sets below.  Two Jobs are stored; either may be the newer one.
Texts == {<<"A", "b">>, <<"b", "a">>}
Companies == {<<"a", ".">>, <<"b">>}
Places == {<<"A">>, <<"b">>}
Types == {"full-time", "part-time"}

FirstJobs ==
  {[NewJob(1, 0, c) EXCEPT !.isActive = a, !.title = t, !.company = co,
                           !.description = <<"b", "b">>, !.location = l,
                           !.type = ty, !.category = ca] :
     c \in {1, 3}, a \in BOOLEAN, t \in Texts, co \in Companies, l \in Places,
     ty \in Types, ca \in Places}

SecondJobs ==
  {[NewJob(1, 0, 2) EXCEPT !.isActive = a, !.title = t, !.type = ty] :
     a \in BOOLEAN, t \in Texts, ty \in Types}

Queries ==
  [search : {<<>>, <<"a", "b">>, <<"a", ".">>, <<"B">>},
   location : {<<>>, <<"a">>},
   type : {"", "full-time", "Full-Time"},
   category : {<<>>, <<"B">>},
   page : {1, 2},
   limit : {1, 10}]

InitList ==
  /\ users = [u \in UserIds |->
                IF u \in Users
                  THEN [role |-> IF u = 1 THEN "admin" ELSE "user",
                        email |-> u, password |-> "hashed", name |-> "name"]
                  ELSE FreeUser]
  /\ jobs \in {[j \in JobIds |-> IF j = 1 THEN a ELSE IF j = 2 THEN b ELSE NoJob] :
                a \in FirstJobs, b \in SecondJobs}
  /\ applications = {}
  /\ nextAppId = 1
  /\ nextJobId = MaxJobs + 1
  /\ cascaded = {}
  /\ req \in {[r \in Reqs |->
                 IF r = 1 THEN [Idle EXCEPT !.kind = JobsList, !.body = q, !.pc = "find"]
                 ELSE Idle] : q \in Queries}
  /\ resp = NoResp

NextList ==
  \E r \in Reqs :
    \/ JobsList_find(r)
    \/ JobsList_countDocuments(r)
    \/ Send

SpecList == InitList /\ [][NextList]_vars

\* Pagination specification: both paginated listings applied to a request
\* that has arrived, over stores of up to three Jobs created in any order and
\* up to two Applications, for every page and limit up to the bounds.
PagedJobs ==
  {[j \in JobIds |-> [NewJob(1, 0, c[j]) EXCEPT !.isActive = a[j]]] :
     c \in {f \in [JobIds -> JobIds] : \A i, j \in JobIds : f[i] = f[j] => i = j},
     a \in [JobIds -> BOOLEAN]}

PagedApps ==
  {S \in SUBSET {[id |-> 1, job |-> 1, applicant |-> 2, status |-> "pending"],
                 [id |-> 1, job |-> 1, applicant |-> 2, status |-> "accepted"],
                 [id |-> 2, job |-> 2, applicant |-> 3, status |-> "pending"]} :
     \A x, y \in S : x.id = y.id => x = y}

PagedQueries ==
  [search : {<<>>}, location : {<<>>}, type : {"", "full-time"}, category : {<<>>},
   page : 1..MaxPage, limit : 1..MaxLimit]

PagedAppQueries ==
  [search : {<<>>, <<"a">>}, status : {"", "all", "pending"},
   page : 1..MaxPage, limit : 1..MaxLimit]

InitPages ==
  /\ users = [u \in UserIds |->
                IF u \in Users
                  THEN [role |-> IF u = 1 THEN "admin" ELSE "user",
                        email |-> u, password |-> "hashed", name |-> "name"]
                  ELSE FreeUser]
  /\ jobs \in PagedJobs
  /\ applications \in PagedApps
  /\ nextAppId = MaxApps + 1
  /\ nextJobId = MaxJobs + MaxNewJobs + 1
  /\ cascaded = {}
  /\ req \in {[r \in Reqs |->
                 IF r = 1 THEN [Idle EXCEPT !.kind = JobsList, !.body = q, !.pc = "find"]
                 ELSE Idle] : q \in PagedQueries}
         \cup {[r \in Reqs |->
                 IF r = 1 THEN [Idle EXCEPT !.kind = AdminApps, !.token = 1, !.uid = 1,
                                            !.urole = "admin", !.body = q, !.pc = "find"]
                 ELSE Idle] : q \in PagedAppQueries}
  /\ resp = NoResp

NextPages ==
  \E r \in Reqs :
    \/ JobsList_find(r)
    \/ JobsList_countDocuments(r)
    \/ AdminApps_find(r)
    \/ Send

SpecPages == InitPages /\ [][NextPages]_vars

\* =================================================================== claims

\* C1: in every reachable state there is at most one Application per
\* (job, applicant) pair, whatever the interleaving of the apply requests of
\* both endpoints, including two requests of one caller for one job that both
\* pass the in-handler check before either inserts.
C1_OneApplicationPerPair ==
  \A a, b \in applications : (a.job = b.job /\ a.applicant = b.applicant) => a = b

\* The unique index has just rejected an insert that had passed the in-handler
\* check, and the pair's one Application is stored.
C1_IndexRejectedSecondInsert ==
  /\ resp.kind \in ApplyRoutes
  /\ resp.err = "E11000"
  /\ Cardinality({a \in applications : a.job = resp.id /\ a.applicant = resp.token}) = 1

\* C2: when an Application exists for (job J, caller A), an apply by A to J
\* through either endpoint is answered 400, creates no record and leaves every
\* applicationCount unchanged, also when only the unique index detects the
\* duplicate.
C2_DuplicateApplyAnswered400 ==
  [][\A r \in Reqs :
       (/\ req[r].kind \in ApplyRoutes
        /\ req[r].pc \in {"findOne", "create"}
        /\ \E a \in applications : a.job = req[r].id /\ a.applicant = req[r].uid
        /\ req'[r] # req[r])
       => (resp'.status = 400 /\ applications' = applications /\ jobs' = jobs)]_vars

\* C3: an apply or an application-delete that starts with every
\* applicationCount equal to the number of Applications of its Job, and runs
\* alone, is answered with that equality holding again.
C3_CountEqualsApplicationsAfterApplyOrDelete ==
  (resp.kind \in ApplyRoutes \cup AppDeleteRoutes /\ resp.pre.eq) => CountEq

\* C4: once a Job is deleted and no deletion of it is still running, no
\* Application references it.
C4_NoApplicationOfDeletedJob ==
  \A j \in Jobs :
    (/\ ~jobs[j].exists
     /\ ~\E r \in Reqs : InFlight(r) /\ req[r].kind \in JobDeleteRoutes /\ req[r].id = j)
    => {a \in applications : a.job = j} = {}

\* C5: a job delete that runs alone on an existing job removes exactly the
\* Applications that referenced the job and leaves the others as they were;
\* the removed ones never come back, and an admin's later lookup of one of
\* them by id is answered 404.
C5_JobDeleteRemovesItsApplications ==
  /\ (resp.kind \in JobDeleteRoutes /\ resp.status = 200)
       => applications = {a \in resp.pre.apps : a.job # resp.id}
  /\ cascaded \cap AppIds = {}
  /\ (resp.kind = AdminAppGet /\ resp.urole = "admin" /\ resp.id \in cascaded)
       => resp.status = 404

\* An admin looks up an Application that a job delete removed, while an
\* Application of another job is still stored.
C5_LookupAfterCascade ==
  /\ resp.kind = AdminAppGet
  /\ resp.id \in cascaded
  /\ resp.status = 404
  /\ applications # {}

\* C6: an apply that has created its Application and cannot increment
\* applicationCount because the Job is gone answers 404 and leaves no
\* Application behind, through either endpoint.
C6_ApplyRolledBackWhenJobGone ==
  (resp.kind \in ApplyRoutes /\ resp.app # 0 /\ ~JobExists(resp.id))
    => (resp.status = 404 /\ resp.app \notin AppIds)

\* C7: DELETE /api/admin/users/:id on an admin account answers 400 and changes
\* no store, and no step ever removes a user who is admin at that moment.
C7_AdminNeverDeleted ==
  [][/\ \A u \in Users : users[u].role = "admin" => users'[u].role # "gone"
     /\ \A r \in Reqs :
          (/\ req[r].kind = AdminUserDelete
           /\ req[r].pc = "findUser"
           /\ req[r].id \in Users
           /\ users[req[r].id].role = "admin"
           /\ req'[r] # req[r])
          => (resp'.status = 400 /\ users' = users /\ applications' = applications)]_vars

\* C8: once a user is deleted and no deletion of that user is still running,
\* no Application has that user as its applicant.
C8_NoApplicationOfDeletedUser ==
  \A u \in Users :
    (/\ users[u].role = "gone"
     /\ ~\E r \in Reqs : InFlight(r) /\ req[r].kind = AdminUserDelete /\ req[r].id = u)
    => {a \in applications : a.applicant = u} = {}

\* C9: a request without a bearer token to a guarded route is answered 401,
\* its handler never runs, and no User, Job or Application changes.
C9_NoTokenAnswered401 ==
  /\ [](/\ \A r \in Reqs : InFlight(r) => req[r].token # NoToken
        /\ (resp.kind \in AuthRoutes /\ resp.token = NoToken) => resp.status = 401)
  /\ [][(resp'.kind \in AuthRoutes /\ resp'.token = NoToken)
          => (users' = users /\ jobs' = jobs /\ applications' = applications)]_vars

\* A request without a token has been answered 401 while Applications are stored.
C9_NoTokenRejected ==
  /\ resp.kind \in AuthRoutes
  /\ resp.token = NoToken
  /\ resp.status = 401
  /\ applications # {}

\* C10: a request to an admin-only route whose token resolves to a user of
\* role "user" is answered 403, its handler never runs, and no User, Job or
\* Application changes.
C10_UserRoleAnswered403 ==
  /\ [](/\ \A r \in Reqs : (InFlight(r) /\ req[r].kind \in AdminRoutes) => req[r].urole = "admin"
        /\ (resp.kind \in AdminRoutes /\ resp.urole = "user") => resp.status = 403)
  /\ [][(resp'.kind \in AdminRoutes /\ resp'.urole = "user")
          => (users' = users /\ jobs' = jobs /\ applications' = applications)]_vars

\* A user of role "user" has been answered 403 on an admin-only route while
\* Applications are stored.
C10_UserRejected ==
  /\ resp.kind \in AdminRoutes
  /\ resp.urole = "user"
  /\ resp.status = 403
  /\ applications # {}

\* C11: a request that arrives after its token's user was deleted is answered
\* 401 by authenticate, on every guarded route: its handler never starts and
\* no User, Job or Application changes.
C11_DeletedUsersTokenAnswered401 ==
  [][\A u \in Users :
       users[u].role = "gone" =>
         /\ \A r \in Reqs : (~InFlight(r) /\ req'[r].pc # "idle") => req'[r].token # u
         /\ (resp = NoResp /\ resp'.kind \in AuthRoutes /\ resp'.token = u /\ req' = req)
              => (/\ resp'.status = 401
                  /\ users' = users /\ jobs' = jobs /\ applications' = applications)]_vars

\* The token of a deleted user has been answered 401.
C11_DeletedUsersTokenRejected ==
  /\ resp.kind \in AuthRoutes
  /\ resp.token \in Users
  /\ users[resp.token].role = "gone"
  /\ resp.status = 401

\* C12: DELETE /api/applications/:id removes an Application only for its
\* applicant or an admin; any other authenticated caller is answered 403 and
\* a non-existent id 404, both with the Applications and every
\* applicationCount unchanged.
C12_ApplicationDeleteBySelfOrAdmin ==
  [][\A r \in Reqs :
       req[r].kind = AppsDelete =>
         /\ \A a \in applications \ applications' :
              a.id = req[r].id /\ (a.applicant = req[r].uid \/ req[r].urole = "admin")
         /\ (req[r].pc = "findApp" /\ req'[r] # req[r] /\ req[r].id \notin AppIds)
              => (resp'.status = 404 /\ applications' = applications /\ jobs' = jobs)
         /\ (/\ req[r].pc = "findApp" /\ req'[r] # req[r]
             /\ \E a \in applications :
                  a.id = req[r].id /\ a.applicant # req[r].uid /\ req[r].urole # "admin")
              => (resp'.status = 403 /\ applications' = applications /\ jobs' = jobs)]_vars

\* A user who is neither the applicant nor an admin has been answered 403 and
\* the Application is still stored.
C12_StrangerRejected ==
  /\ resp.kind = AppsDelete
  /\ resp.status = 403
  /\ \E a \in applications : a.id = resp.id /\ a.applicant # resp.token

\* C13: the status of a stored Application changes only in a step of a
\* status-update request (either endpoint) for that Application whose caller
\* has role admin; no other request and no other operation changes it.
C13_StatusChangedOnlyByAdminUpdate ==
  [][\A a \in applications : \A b \in applications' :
       (a.id = b.id /\ a.status # b.status) =>
         \E r \in Reqs : /\ req[r].kind \in StatusRoutes
                          /\ req[r].urole = "admin"
                          /\ req[r].id = a.id
                          /\ req'[r] # req[r]]_vars

\* An admin's status update has been answered 200 and the Application has
\* left the pending status.
C13_AdminChangedStatus ==
  /\ resp.kind \in StatusRoutes
  /\ resp.urole = "admin"
  /\ resp.status = 200
  /\ \E a \in applications : a.id = resp.id /\ a.status = resp.body /\ a.status # "pending"

\* C14: every stored Application has a status among pending, reviewed,
\* accepted and rejected, a new Application is pending, and a status update
\* carrying another value is not answered 200.
C14_StatusInEnum ==
  /\ \A a \in applications : a.status \in StatusEnum
  /\ (resp.kind \in ApplyRoutes /\ resp.status = 201)
       => \A a \in applications : a.id = resp.app => a.status = "pending"
  /\ (resp.kind \in StatusRoutes /\ resp.body \notin StatusEnum) => resp.status # 200

\* C15: an admin's status update of an existing Application to any of
\* pending, reviewed, accepted and rejected is answered 200 and leaves the
\* Application with that status, through both endpoints and from every
\* current status.
C15_EveryTransitionAllowed ==
  (/\ resp.kind \in StatusRoutes
   /\ resp.urole = "admin"
   /\ resp.body \in StatusEnum
   /\ resp.id \in AppIds)
  => (/\ resp.status = 200
      /\ \E a \in applications : a.id = resp.id /\ a.status = resp.body)

\* C16: no step of a PUT /api/auth/profile request changes the role or the
\* stored password of any user, whatever the body, nor any field of a user
\* other than the caller.
C16_ProfileUpdateKeepsRoleAndPassword ==
  [][\A r \in Reqs :
       (req[r].kind = AuthProfilePut /\ req'[r] # req[r]) =>
         \A u \in UserIds :
           /\ users'[u].role = users[u].role
           /\ users'[u].password = users[u].password
           /\ u # req[r].uid => users'[u] = users[u]]_vars

C18_DuplicateRegistrationAnswered400 ==
  /\ [](\A u, v \in UserIds :
          (UserExists(u) /\ UserExists(v) /\ users[u].email = users[v].email) => u = v)
  /\ [][\A r \in Reqs :
          (/\ req[r].kind = AuthRegister
           /\ req[r].body # "root"
           /\ EmailTaken(req[r].id)
           /\ req'[r] # req[r])
          => (resp'.status = 400 /\ users' = users)]_vars

\* C19: no response body holds the password of a user: no User document in
\* it has a password field, nor another field whose value is a stored
\* password, hashed or plain.
C19_NoPasswordInResponse ==
  \A d \in resp.docs : d.password = "none" /\ d.name \notin {"hashed", "plain"}

\* C20: a 200 response of GET /api/jobs lists only active Jobs that satisfy
\* every supplied filter: search is contained, in either case, in the title,
\* the company or the description; location and category are contained, in
\* either case, in the Job's; type is equal.  The list is newest first, and
\* with no filter supplied every active Job is counted.
C20_ListHoldsOnlyMatchingActiveJobsNewestFirst ==
  LET Contains(text, s) ==
        \E i \in 1..(Len(text) - Len(s) + 1) :
          \A k \in 1..Len(s) : Lower(s[k]) = Lower(text[i + k - 1])
      q == resp.body
      list == resp.list
  IN (resp.kind = JobsList /\ resp.status = 200) =>
       /\ \A n \in 1..Len(list) :
            LET job == jobs[list[n]]
            IN /\ job.exists /\ job.isActive
               /\ Supplied(q.search) =>
                    \/ Contains(job.title, q.search)
                    \/ Contains(job.company, q.search)
                    \/ Contains(job.description, q.search)
               /\ Supplied(q.location) => Contains(job.location, q.location)
               /\ q.type # "" => job.type = q.type
               /\ Supplied(q.category) => Contains(job.category, q.category)
       /\ \A m, n \in 1..Len(list) :
            m < n => jobs[list[m]].createdAt > jobs[list[n]].createdAt
       /\ (~Supplied(q.search) /\ ~Supplied(q.location) /\ q.type = ""
             /\ ~Supplied(q.category))
            => resp.total = Cardinality({j \in JobIds : jobs[j].exists /\ jobs[j].isActive})

C22_ApplyToMissingJobAnswered404 ==
  [][\A r \in Reqs :
       (/\ resp = NoResp
        /\ req[r].kind \in ApplyRoutes
        /\ req[r].pc = "findJob"
        /\ ~jobs[req[r].id].exists
        /\ req'[r] # req[r])
       => (/\ resp'.status = 404
           /\ resp'.kind = req[r].kind
           /\ applications' = applications
           /\ jobs' = jobs)]_vars

\* POST /api/jobs/:id/apply has answered 404 for a Job that is not stored.
C22_MissingJobAnswered404 ==
  /\ resp.kind = JobsApply
  /\ resp.status = 404
  /\ ~jobs[resp.id].exists

\* C23: the step of POST /api/jobs that stores a Job stores it with postedBy
\* equal to the admin authenticated on the request, whatever the body holds.
C23_CreatedJobPostedByCaller ==
  [][nextJobId' # nextJobId
       => \E r \in Reqs :
            /\ req[r].kind = JobsCreate
            /\ req[r].pc = "create"
            /\ req'[r] # req[r]
            /\ req[r].urole = "admin"
            /\ jobs'[nextJobId].exists
            /\ jobs'[nextJobId].postedBy = req[r].token]_vars

\* A Job created from a body that names another user as its poster.
C23_CreatedWithPostedByInBody ==
  /\ resp.kind = JobsCreate
  /\ resp.status = 201
  /\ resp.body = "postedBy"
  /\ jobs[MaxJobs + 1].exists
  /\ jobs[MaxJobs + 1].postedBy = resp.token

\* C24: when the cascade of DELETE /api/jobs/:id fails after the Job was
\* removed, the request is answered 500, the Job stays removed and the
\* Applications stay as they were; a removed Job never comes back, and an
\* Application of a removed Job leaves the ledger only in a step of a delete
\* request or of the rollback of an apply request.
C24_FailedCascadeLeavesOrphans ==
  /\ [][\A r \in Reqs :
          (/\ resp = NoResp
           /\ req[r].kind = JobsDelete
           /\ req[r].pc = "cascade"
           /\ req'[r] # req[r]
           /\ resp'.err = "deleteMany")
          => (/\ resp'.status = 500
              /\ ~jobs'[req[r].id].exists
              /\ applications' = applications)]_vars
  /\ [][\A j \in JobIds : (j < nextJobId /\ ~jobs[j].exists) => ~jobs'[j].exists]_vars
  /\ [][\A a \in applications :
          (~jobs[a.job].exists /\ a \notin applications')
          => \E r \in Reqs :
               /\ req'[r] # req[r]
               /\ req[r].kind \in JobDeleteRoutes \cup {AdminUserDelete, AppsCreate}
                                   \cup AppDeleteRoutes]_vars

\* The cascade has failed: 500, the Job is gone, an Application of it is stored.
C24_OrphanAfterFailedCascade ==
  /\ resp.kind = JobsDelete
  /\ resp.status = 500
  /\ ~jobs[resp.id].exists
  /\ \E a \in applications : a.job = resp.id

\* C25: no stored applicationCount is negative in any reachable state, also
\* when two DELETE /api/applications/:id requests for one Application both
\* read it before either removes it.
C25_ApplicationCountNeverNegative ==
  \A j \in JobIds : jobs[j].applicationCount >= 0

\* C26: a Job is created with applicationCount 0 whatever the body of
\* POST /api/jobs holds, and the applicationCount of a stored Job changes only
\* in a step of an apply or of an application-delete request, so never in
\* one of PUT /api/jobs/:id.
C26_CountWrittenOnlyByApplyAndDelete ==
  [][\A j \in JobIds :
       jobs'[j].exists =>
         IF jobs[j].exists
           THEN jobs'[j].applicationCount # jobs[j].applicationCount
                  => \E r \in Reqs :
                       /\ req'[r] # req[r]
                       /\ req[r].kind \in ApplyRoutes \cup AppDeleteRoutes
           ELSE jobs'[j].applicationCount = 0]_vars

\* C27: when DELETE /api/admin/users/:id, run alone from a state in which
\* every applicationCount was right, has removed a user and their
\* Applications, every stored Job that those Applications referenced has
\* applicationCount equal to the number of Applications that reference it.
C27_CountRightAfterUserDelete ==
  (resp.kind = AdminUserDelete /\ resp.status = 200 /\ resp.pre.eq)
    => \A a \in resp.pre.apps :
         (a.applicant = resp.id /\ jobs[a.job].exists)
           => jobs[a.job].applicationCount
                = Cardinality({b \in applications : b.job = a.job})

\* C28: every state reachable by user deletions and role changes from a
\* state with an admin has at least one stored user of role admin.
C28_SomeAdminRemains ==
  \E u \in UserIds : users[u].role = "admin"

\* C29: the two apply endpoints give one outcome in one situation, in every
\* interleaving with a job delete or a duplicate apply.  Every step that
\* answers an apply request with a well-formed body, through either
\* endpoint, answers 201, 400 or 404: 201 when the Job is stored, with the
\* Job's applicationCount one higher and the ledger as the insert left it;
\* 400 when an Application of the caller for the Job is stored, with the
\* ledger and the counts unchanged; 404 when the Job is not stored, with no
\* Application of the request left in the ledger.
C29_ApplyEndpointsAgree ==
  [][\A r \in Reqs :
       (/\ req[r].kind \in ApplyRoutes
        /\ req[r].body = "ok"
        /\ InFlight(r)
        /\ req'[r] # req[r]
        /\ resp' # NoResp)
       => /\ resp'.status \in {201, 400, 404}
          /\ resp'.status = 201 =>
               /\ jobs[req[r].id].exists
               /\ jobs' = IncApplicationCount(req[r].id, 1)
               /\ applications' = applications
          /\ resp'.status = 400 =>
               /\ \E a \in applications :
                    a.job = req[r].id /\ a.applicant = req[r].uid
               /\ applications' = applications
               /\ jobs' = jobs
          /\ resp'.status = 404 =>
               /\ ~jobs'[req[r].id].exists
               /\ req[r].loc \notin applications']_vars

\* C30: every Application enters the ledger in the insert of an apply
\* request, with the user authenticated on that request as its applicant,
\* whatever the body holds; and a 200 response of
\* GET /api/applications/my-applications lists exactly the stored
\* Applications whose applicant is the caller, each once.
C30_ApplicantIsCallerAndListIsOwn ==
  /\ [][\A a \in {b \in applications' : \A c \in applications : c.id # b.id} :
          \E r \in Reqs :
            /\ req[r].kind \in ApplyRoutes
            /\ req[r].pc = "create"
            /\ req'[r] # req[r]
            /\ req[r].token \in UserIds
            /\ a.applicant = req[r].token]_vars
  /\ []((resp.kind = AppsMine /\ resp.status = 200)
         => /\ {resp.list[n] : n \in 1..Len(resp.list)}
                 = {a.id : a \in {b \in applications : b.applicant = resp.token}}
            /\ Len(resp.list)
                 = Cardinality({b \in applications : b.applicant = resp.token}))

\* The first user lists their one Application while the ledger also holds
\* one of another user.
C30_OwnListAmongOthers ==
  /\ resp.kind = AppsMine
  /\ resp.status = 200
  /\ resp.token = 2
  /\ Len(resp.list) = 1
  /\ Cardinality(applications) = 2

====
